---- MODULE Spec2Model ----
\* A model of faust.worker: the Worker that starts one Faust app, its
\* dependency list, its terminal spinner and its startup hooks.
EXTENDS Integers, Sequences, FiniteSets, TLC

\* ---------------------------------------------------------------- bounds
\* Longest sequence of auxiliary services handed to the constructor.
MaxServices == 2
\* Most handlers the root logger holds before setup stops adding more.
MaxHandlers == 3
\* Deepest directory of the modelled file system.
MaxDepth == 3

\* ------------------------------------------------------------- constants
\* logging.DEBUG and logging.WARN as the code names them.
DEBUG == 10
WARN == 30

\* The python None.
None == "None"

\* ------------------------------------------------------ input universes
ServiceNames == {"S1", "S2"}
SensorNames == {"m1", "m2"}

RECURSIVE SeqsUpTo(_, _)
SeqsUpTo(S, n) ==
    IF n = 0 THEN {<<>>}
    ELSE LET shorter == SeqsUpTo(S, n - 1)
         IN  shorter \cup {Append(s, x) : s \in {t \in shorter : Len(t) = n - 1}, x \in S}

\* *services: any sequence of services, repeats allowed.
ServiceSeqs == SeqsUpTo(ServiceNames, MaxServices)

\* loglevel as the effective numeric level; 0 stands for "not configured".
ConfigLevels == {0, 1, DEBUG, WARN - 1, WARN, WARN + 10}

\* Severities of the log records the program emits.
Severities == {DEBUG - 5, DEBUG, WARN}

\* Directories: absolute paths are sequences of components under the root.
RECURSIVE Chain(_)
Chain(n) == IF n = 0 THEN <<>> ELSE Append(Chain(n - 1), "a")
ExistingDirs == {Chain(n) : n \in 0..MaxDepth} \cup {<<"b">>}
StartDir == <<"a">>
\* workdir argument: None, absolute or relative paths.
WorkdirArgs == {[abs |-> TRUE, parts |-> <<>>, none |-> TRUE],
                [abs |-> TRUE, parts |-> <<"a">>, none |-> FALSE],
                [abs |-> TRUE, parts |-> <<"b">>, none |-> FALSE],
                [abs |-> TRUE, parts |-> <<"c">>, none |-> FALSE],
                [abs |-> FALSE, parts |-> <<"a">>, none |-> FALSE]}

VARIABLES
    run,            \* position of the startup run
    offScript,      \* a hook was invoked outside the startup order
    services,       \* self.services, the *services of the constructor
    sensors,        \* self.sensors
    appSensors,     \* app.sensors
    appSensors0,    \* app.sensors as it was before the Worker was built
    appBeaconParent,\* parent of app.beacon
    appCallback,    \* app.on_startup_finished
    deps,           \* the dependency list on_init_dependencies returned
    website,        \* the memoized website instance, 0 when not yet built
    websiteCalls,   \* invocations of the self.Website factory
    websiteSeen,    \* the instances the accessor has returned
    spinner,        \* self.spinner
    finishCalls,    \* calls of spinner.finish()
    loglevel,       \* self.loglevel
    handlers,       \* logger.handlers of the root logger
    loggerLevel,    \* level of the root logger
    cwd,            \* current directory of the process
    workdir,        \* self.workdir
    proctitle,      \* title of the process
    bannerSpinner,  \* self.spinner when the banner was last written
    starting,       \* index of the dependency now starting, 0 when none
    started,        \* indexes of started dependencies, in start order
    stopped,        \* indexes of stopped dependencies, in stop order
    failedDep,      \* index of the dependency that failed to start, or 0
    err,            \* the error the last call raised to its caller
    arg,            \* numeric argument of the last call: a level, a severity, or -1
    loop,           \* module of the event loop's class, None while there is no loop
    cfg,            \* logfile and loglevel name given to the Worker, app.id, pid
    text,           \* the banner last rendered, line by line
    out             \* what the last call did, in order

vars == <<run, offScript, services, sensors, appSensors, appSensors0,
          appBeaconParent, appCallback, deps, website, websiteCalls,
          websiteSeen, spinner, finishCalls, loglevel, handlers, loggerLevel,
          cwd, workdir, proctitle, bannerSpinner, starting, started, stopped,
          failedDep, err, arg, loop, cfg, text, out>>


\* ------------------------------------------------------------ Beacon Link
\* reattach that leaves the node where it was.
reattach_Kept(oldParent, newParent) == oldParent

\* Node.reattach(parent): the node's parent becomes the given beacon.
reattach(oldParent, newParent) == newParent

\* ------------------------------------------------------------------ sensors
\* A transfer that assigns the worker's set to the app instead of adding to it.
TransferSensors_Assigned(onApp, mine) == mine

\* for sensor in self.sensors: self.app.sensors.add(sensor)
TransferSensors(onApp, mine) == onApp \cup mine

\* ------------------------------------------------------------------ website
\* cached_property keeps the value of the first access on the instance.
cached_hit(cached) == cached # 0

\* A loop property that hands out None when there is no event loop.
NotReady_Never(cached, lp) == FALSE

\* self.loop read by the website factory call: with no event loop the read
\* fails with NotReady; a memoized website is returned without the read.
NotReady(cached, lp) == ~cached_hit(cached) /\ lp = None

\* The accessor as a plain property, building a website on every access.
website_property_Plain(cached, calls) == [inst |-> calls + 1, calls |-> calls + 1]

\* One access of Worker.website: the instance it returns and the number of
\* factory invocations afterwards. Instances are numbered by creation.
website_property(cached, calls) ==
    IF cached_hit(cached)
    THEN [inst |-> cached, calls |-> calls]
    ELSE [inst |-> calls + 1, calls |-> calls + 1]

\* A chain that puts the app before the auxiliary services.
DependencyList_AppEarly(site, svcs, app) == <<site, app>> \o svcs

\* chain([self.website], self.services, [self.app])
DependencyList(site, svcs, app) == <<site>> \o svcs \o <<app>>

\* ------------------------------------------------------------------ spinner
\* A constructor that leaves the spinner out when the level is a verbose one.
NewSpinner_ByLevel(level) == IF level # 0 /\ level < WARN THEN None ELSE "Active"

\* self.spinner = Spinner(file=self.stdout)
NewSpinner(level) == "Active"

\* The level test with DEBUG for its threshold.
DisablesSpinner_Debug(level) == level # 0 /\ level < DEBUG

\* The level test without its guard for the level that is not set.
DisablesSpinner_Unguarded(level) == level < WARN

\* The level test of on_setup_root_logger.
DisablesSpinner(level) == level # 0 /\ level < WARN

\* A spinner handler that lets only warnings and worse through.
SpinnerHandler_Warn == [kind |-> "spinner", level |-> WARN]

\* SpinnerHandler(self, level=logging.DEBUG), and the handler the logging
\* setup installs first.
SpinnerHandler == [kind |-> "spinner", level |-> DEBUG]
StreamHandler == [kind |-> "stream", level |-> 0]

\* A setup that makes a new spinner whenever the level keeps the spinner.
on_setup_root_logger_Recreate(sp, hs, ll, level) ==
    IF DisablesSpinner(level)
    THEN [spinner |-> None, handlers |-> hs, level |-> ll, err |-> "none"]
    ELSE IF Len(hs) = 0
    THEN [spinner |-> "Active", handlers |-> hs, level |-> ll, err |-> "IndexError"]
    ELSE [spinner |-> "Active",
          handlers |-> Append([hs EXCEPT ![1].level = level], SpinnerHandler),
          level |-> DEBUG,
          err |-> "none"]

\* A setup that puts the level on the first handler before it looks at the
\* spinner.
on_setup_root_logger_AlwaysLevel(sp, hs, ll, level) ==
    LET sp1 == IF DisablesSpinner(level) THEN None ELSE sp
        hs1 == IF Len(hs) = 0 THEN hs ELSE [hs EXCEPT ![1].level = level]
    IN  IF sp1 = None
        THEN [spinner |-> sp1, handlers |-> hs1, level |-> ll, err |-> "none"]
        ELSE IF Len(hs) = 0
        THEN [spinner |-> sp1, handlers |-> hs, level |-> ll, err |-> "IndexError"]
        ELSE [spinner |-> sp1,
              handlers |-> Append(hs1, SpinnerHandler),
              level |-> DEBUG,
              err |-> "none"]

\* on_setup_root_logger(logger, level): the spinner, the logger's handlers and
\* level afterwards, and the error raised.
on_setup_root_logger(sp, hs, ll, level) ==
    LET sp1 == IF DisablesSpinner(level) THEN None ELSE sp
    IN  IF sp1 = None
        THEN [spinner |-> sp1, handlers |-> hs, level |-> ll, err |-> "none"]
        ELSE IF Len(hs) = 0
        THEN [spinner |-> sp1, handlers |-> hs, level |-> ll, err |-> "IndexError"]
        ELSE [spinner |-> sp1,
              handlers |-> Append([hs EXCEPT ![1].level = level], SpinnerHandler),
              level |-> DEBUG,
              err |-> "none"]

\* An emit that advances the spinner without looking at the handle.
emit_Always(sp) == <<"tick">>

\* SpinnerHandler.emit(record): the ticks of one delivered record.
emit(sp) == IF sp = "Active" THEN <<"tick">> ELSE <<>>

\* Logger.handle for the root logger: the record reaches every handler whose
\* level it meets, when the logger's own level lets it through.
RECURSIVE callHandlers(_, _, _)
callHandlers(hs, sev, sp) ==
    IF hs = <<>> THEN <<>>
    ELSE (IF sev >= Head(hs).level /\ Head(hs).kind = "spinner" THEN emit(sp) ELSE <<>>)
         \o callHandlers(Tail(hs), sev, sp)

\* -------------------------------------------------------------------- paths
\* Path.absolute()
Absolute(p, dir) == IF p.abs THEN p.parts ELSE dir \o p.parts

\* A test that asks for the directory change whatever the two paths are.
NeedsChdir_Always(dir, wd) == TRUE

\* self.workdir and Path.cwd().absolute() != self.workdir.absolute(); a Path
\* is never falsy.
NeedsChdir(dir, wd) == dir # Absolute(wd, dir)

\* Path(workdir or Path.cwd())
InitWorkdir(given, dir) ==
    IF given.none THEN [abs |-> TRUE, parts |-> dir]
    ELSE [abs |-> given.abs, parts |-> given.parts]

\* ------------------------------------------------------------------- Init
\* Before the Worker is built: the app exists with its own sensors, the root
\* logger is python's default one, the process sits in its start directory.
InitWorker ==
    /\ run = "new"
    /\ offScript = FALSE
    /\ services = <<>>
    /\ sensors = {}
    /\ appSensors0 \in SUBSET SensorNames
    /\ appSensors = appSensors0
    /\ appBeaconParent = None
    /\ appCallback = None
    /\ deps = <<>>
    /\ website = 0
    /\ websiteCalls = 0
    /\ websiteSeen = {}
    /\ spinner = "unset"
    /\ finishCalls = 0
    /\ loglevel = 0
    /\ handlers = <<>>
    /\ loggerLevel = WARN
    /\ cwd = StartDir
    /\ workdir = [abs |-> TRUE, parts |-> StartDir]
    /\ proctitle = "python"
    /\ bannerSpinner = "unwritten"
    /\ starting = 0
    /\ started = <<>>
    /\ stopped = <<>>
    /\ failedDep = 0
    /\ err = "none"
    /\ arg = -1
    /\ out = <<>>
    /\ text = <<>>

\* Options and facts of a Worker with no log file and no level name.
PlainConfig == [logfile |-> None, levelName |-> "", id |-> "x", pid |-> 1234]

\* The process has its event loop when the Worker is built.
Init ==
    /\ InitWorker
    /\ loop = "asyncio"
    /\ cfg = PlainConfig

\* The Worker may be built before there is an event loop.
InitLoop ==
    /\ InitWorker
    /\ loop \in {None, "asyncio"}
    /\ cfg = PlainConfig

\* ------------------------------------------------------------ construction
\* Worker.on_init_dependencies as a step on the fields it touches.
on_init_dependencies ==
    LET site == website_property(website, websiteCalls)
    IN  /\ appBeaconParent' = reattach(appBeaconParent, "worker")
        /\ appSensors' = TransferSensors(appSensors, sensors')
        /\ appCallback' = "worker"
        /\ IF NotReady(website, loop)
           THEN UNCHANGED <<website, websiteCalls, websiteSeen, deps>>
           ELSE /\ website' = site.inst
                /\ websiteCalls' = site.calls
                /\ websiteSeen' = websiteSeen \cup {site.inst}
                /\ deps' = DependencyList("website", services', "app")

\* ServiceWorker.__init__(*services, loglevel=...): keeps the services and the
\* logging options and resolves the dependencies of the new service.
ServiceWorkerInit(svcs, level) ==
    /\ services' = svcs
    /\ loglevel' = level
    /\ on_init_dependencies

\* Worker.__init__(app, *services, sensors=, loglevel=, workdir=), with the
\* arguments drawn from the given sets.
WorkerInit(svcSet, sensSet, levelSet, wdSet) ==
    /\ run = "new"
    /\ \E svcs \in svcSet, sens \in sensSet, level \in levelSet, wd \in wdSet :
         /\ sensors' = sens
         /\ workdir' = InitWorkdir(wd, cwd)
         /\ ServiceWorkerInit(svcs, level)
         /\ spinner' = IF NotReady(website, loop) THEN spinner ELSE NewSpinner(level)
    /\ run' = IF NotReady(website, loop) THEN "new" ELSE "constructed"
    /\ err' = IF NotReady(website, loop) THEN "NotReady" ELSE "none"
    /\ out' = <<>>
    /\ arg' = -1
    /\ text' = <<>>
    /\ UNCHANGED <<offScript, appSensors0, finishCalls, handlers, loggerLevel,
                   cwd, proctitle, bannerSpinner, starting, started, stopped,
                   failedDep,
                   loop, cfg>>

\* Worker(app, *services, sensors=..., loglevel=..., workdir=...)
Construct == WorkerInit(ServiceSeqs, SUBSET SensorNames, ConfigLevels, WorkdirArgs)

\* The caller makes an event loop.
NewEventLoop ==
    /\ loop = None
    /\ loop' = "asyncio"
    /\ UNCHANGED <<run, offScript, services, sensors, appSensors, appSensors0,
                   appBeaconParent, appCallback, deps, website, websiteCalls,
                   websiteSeen, spinner, finishCalls, loglevel, handlers,
                   loggerLevel, cwd, workdir, proctitle, bannerSpinner, starting,
                   started, stopped, failedDep, err, arg, cfg, text, out>>

\* A later call of on_init_dependencies on the built Worker.
CallOnInitDependencies ==
    /\ run # "new"
    /\ sensors' = sensors
    /\ services' = services
    /\ on_init_dependencies
    /\ out' = <<>>
    /\ err' = "none"
    /\ arg' = -1
    /\ UNCHANGED <<run, offScript, appSensors0, spinner, finishCalls, loglevel,
                   handlers, loggerLevel, cwd, workdir, proctitle, bannerSpinner,
                   starting, started, stopped, failedDep,
                   loop, cfg, text>>

\* A read of worker.website.
AccessWebsite ==
    /\ run # "new"
    /\ LET site == website_property(website, websiteCalls)
       IN  /\ website' = site.inst
           /\ websiteCalls' = site.calls
           /\ websiteSeen' = websiteSeen \cup {site.inst}
    /\ out' = <<"website">>
    /\ err' = "none"
    /\ arg' = -1
    /\ UNCHANGED <<run, offScript, services, sensors, appSensors, appSensors0,
                   appBeaconParent, appCallback, deps, spinner, finishCalls,
                   loglevel, handlers, loggerLevel, cwd, workdir, proctitle,
                   bannerSpinner, starting, started, stopped, failedDep,
                   loop, cfg, text>>

\* ------------------------------------------------------------------- hooks
\* The startup order of the hooks: a hook called at its place moves the run
\* on, a hook called anywhere else leaves the order.
Advance(at, to) == run' = IF run = at /\ ~offScript THEN to ELSE run
Strays(at) == offScript' = (offScript \/ run # at)

\* ServiceWorker.on_first_start: logging is set up for the configured level
\* (the root logger gets its first handler and its level) and the worker's
\* on_setup_root_logger hook is called with the root logger.
SetupLogging(sp, hs, level) ==
    on_setup_root_logger(sp, IF hs = <<>> THEN <<StreamHandler>> ELSE hs, level, level)

\* Worker.on_first_start
on_first_start ==
    /\ run # "new"
    /\ LET target == Absolute(workdir, cwd)
           moves == NeedsChdir(cwd, workdir)
           fails == moves /\ target \notin ExistingDirs
           setup == SetupLogging(spinner, handlers, loglevel)
       IN  IF fails
           THEN /\ err' = "chdir"
                /\ out' = <<>>
                /\ run' = IF run = "constructed" /\ ~offScript THEN "aborted" ELSE run
                /\ arg' = -1
                /\ UNCHANGED <<cwd, spinner, handlers, loggerLevel>>
           ELSE /\ Len(setup.handlers) <= MaxHandlers
                /\ arg' = loglevel
                /\ cwd' = target
                /\ spinner' = setup.spinner
                /\ handlers' = setup.handlers
                /\ loggerLevel' = setup.level
                /\ err' = setup.err
                /\ out' = (IF moves THEN <<"chdir">> ELSE <<>>) \o <<"setup_logging">>
                /\ Advance("constructed", "first_started")
    /\ Strays("constructed")
    /\ UNCHANGED <<services, sensors, appSensors, appSensors0, appBeaconParent,
                   appCallback, deps, website, websiteCalls, websiteSeen,
                   finishCalls, loglevel, workdir, proctitle, bannerSpinner,
                   starting, started, stopped, failedDep,
                   loop, cfg, text>>

\* Worker.on_setup_root_logger called with the root logger and a level.
CallOnSetupRootLogger ==
    /\ run # "new"
    /\ \E level \in ConfigLevels :
         LET setup == on_setup_root_logger(spinner, handlers, loggerLevel, level)
         IN  /\ Len(setup.handlers) <= MaxHandlers
             /\ spinner' = setup.spinner
             /\ handlers' = setup.handlers
             /\ loggerLevel' = setup.level
             /\ err' = setup.err
             /\ arg' = level
             /\ out' = <<"on_setup_root_logger">>
    /\ offScript' = TRUE
    /\ UNCHANGED <<run, services, sensors, appSensors, appSensors0,
                   appBeaconParent, appCallback, deps, website, websiteCalls,
                   websiteSeen, finishCalls, loglevel, cwd, workdir, proctitle,
                   bannerSpinner, starting, started, stopped, failedDep,
                   loop, cfg, text>>

\* Level names a caller may pass as loglevel; "" stands for no name given.
LevelNames == {"", "WARN", "info", "Debug"}

\* str.upper() on the level names.
upper(name) ==
    CASE name = "WARN" -> "WARN"
      [] name = "info" -> "INFO"
      [] name = "Debug" -> "DEBUG"

\* str.lower() on the names level_name can return.
lower(name) ==
    CASE name = "WARN" -> "warn"
      [] name = "WARNING" -> "warning"
      [] name = "INFO" -> "info"
      [] name = "DEBUG" -> "debug"
      [] name = "ERROR" -> "error"
      [] name = "Level 1" -> "level 1"
      [] name = "Level 29" -> "level 29"

\* The number the logging setup hands to the hooks for a level name.
level_number(name) ==
    CASE name = "WARN" -> WARN
      [] name = "info" -> 20
      [] name = "Debug" -> DEBUG

\* logging.getLevelName on the numbers a Worker is given.
getLevelName(num) ==
    CASE num = DEBUG -> "DEBUG"
      [] num = 20 -> "INFO"
      [] num = WARN -> "WARNING"
      [] num = WARN + 10 -> "ERROR"
      [] num = 1 -> "Level 1"
      [] num = WARN - 1 -> "Level 29"

\* self.loglevel: the name when one was given, else the number (0: none).
\* level_name(self.loglevel or 'WARN'): a name is upper-cased, a number is
\* looked up.
level_name(name, num) ==
    IF name # "" THEN upper(name)
    ELSE IF num = 0 THEN upper("WARN")
    ELSE getLevelName(num)

\* The log destination without the placeholder.
BannerLogfile_Raw(logfile) == logfile

\* self.logfile if self.logfile else '-stderr-'
BannerLogfile(logfile) ==
    IF logfile \in {None, ""} THEN "-stderr-" ELSE logfile

\* '+uvloop' when the loop's class comes from module uvloop.
transport_extra(lp) == IF lp = "uvloop" THEN "+uvloop" ELSE ""

\* str(os.getpid())
PidStr(pid) ==
    CASE pid = 1234 -> "1234"
      [] pid = 7 -> "7"

\* F_BANNER filled in: the art, the ident, then one line per key with the
\* fields formatted into it, in the order of the template.
banner_text(c, num, lp) ==
    << [key |-> "art", val |-> <<"art">>],
       [key |-> "ident", val |-> <<"ident">>],
       [key |-> "id", val |-> <<c.id>>],
       [key |-> "web", val |-> <<"website.url">>],
       [key |-> "log", val |-> <<BannerLogfile(c.logfile),
                                 lower(level_name(c.levelName, num))>>],
       [key |-> "pid", val |-> <<PidStr(c.pid)>>],
       [key |-> "hostname", val |-> <<"hostname">>],
       [key |-> "loop", val |-> <<lp>>],
       [key |-> "transport", val |-> <<"app.url", transport_extra(lp)>>],
       [key |-> "store", val |-> <<"app.store">>] >>

\* Worker.banner(): faust_ident() reads self.website, then the banner does.
banner(cached, calls) ==
    LET ident == website_property(cached, calls)
    IN  <<ident, website_property(ident.inst, ident.calls)>>

\* A call of worker.banner() that prints nothing.
CallBanner ==
    /\ run # "new"
    /\ LET sites == banner(website, websiteCalls)
       IN  /\ website' = sites[2].inst
           /\ websiteCalls' = sites[2].calls
           /\ websiteSeen' = websiteSeen \cup {sites[1].inst, sites[2].inst}
    /\ text' = banner_text(cfg, loglevel, loop)
    /\ out' = <<>>
    /\ err' = "none"
    /\ arg' = -1
    /\ UNCHANGED <<run, offScript, services, sensors, appSensors, appSensors0,
                   appBeaconParent, appCallback, deps, spinner, finishCalls,
                   loglevel, handlers, loggerLevel, cwd, workdir, proctitle,
                   bannerSpinner, starting, started, stopped, failedDep,
                   loop, cfg>>

\* What setproctitle can do: set the title, be the stub of the failed import,
\* or raise.
TitleOutcomes == {"set", "stub", "raises"}

\* Worker.on_execute
on_execute ==
    /\ run # "new"
    /\ \E title \in TitleOutcomes :
         IF title = "raises"
         THEN /\ err' = "setproctitle"
              /\ out' = <<>>
              /\ run' = IF run = "first_started" /\ ~offScript THEN "aborted" ELSE run
              /\ UNCHANGED <<proctitle, website, websiteCalls, websiteSeen,
                             bannerSpinner, text>>
         ELSE LET sites == banner(website, websiteCalls)
              IN  /\ proctitle' = IF title = "set" THEN "[Faust:Worker] init" ELSE proctitle
                  /\ website' = sites[2].inst
                  /\ websiteCalls' = sites[2].calls
                  /\ websiteSeen' = websiteSeen \cup {sites[1].inst, sites[2].inst}
                  /\ bannerSpinner' = spinner
                  /\ text' = banner_text(cfg, loglevel, loop)
                  /\ err' = "none"
                  /\ out' = <<"setproctitle", "banner", "prompt">>
                  /\ Advance("first_started", "executed")
    /\ Strays("first_started")
    /\ arg' = -1
    /\ UNCHANGED <<services, sensors, appSensors, appSensors0, appBeaconParent,
                   appCallback, deps, spinner, finishCalls, loglevel, handlers,
                   loggerLevel, cwd, workdir, starting, started, stopped,
                   failedDep,
                   loop, cfg>>

\* A completion handler that prints the marker before it finishes the spinner.
on_startup_finished_MarkerFirst ==
    /\ run # "new"
    /\ IF spinner = "Active"
       THEN /\ finishCalls' = finishCalls + 1
            /\ spinner' = None
            /\ out' = <<"blockdetection", "say ready", "finish", "clear">>
       ELSE /\ out' = <<"blockdetection", "log Ready">>
            /\ UNCHANGED <<finishCalls, spinner>>
    /\ err' = "none"
    /\ Advance("ready", "finished")
    /\ Strays("ready")
    /\ arg' = -1
    /\ UNCHANGED <<services, sensors, appSensors, appSensors0, appBeaconParent,
                   appCallback, deps, website, websiteCalls, websiteSeen,
                   loglevel, handlers, loggerLevel, cwd, workdir, proctitle,
                   bannerSpinner, starting, started, stopped, failedDep,
                   loop, cfg, text>>

\* A completion handler that finishes the spinner and keeps the handle.
on_startup_finished_KeepsSpinner ==
    /\ run # "new"
    /\ IF spinner = "Active"
       THEN /\ finishCalls' = finishCalls + 1
            /\ spinner' = spinner
            /\ out' = <<"blockdetection", "finish", "say ready">>
       ELSE /\ out' = <<"blockdetection", "log Ready">>
            /\ UNCHANGED <<finishCalls, spinner>>
    /\ err' = "none"
    /\ Advance("ready", "finished")
    /\ Strays("ready")
    /\ arg' = -1
    /\ UNCHANGED <<services, sensors, appSensors, appSensors0, appBeaconParent,
                   appCallback, deps, website, websiteCalls, websiteSeen,
                   loglevel, handlers, loggerLevel, cwd, workdir, proctitle,
                   bannerSpinner, starting, started, stopped, failedDep,
                   loop, cfg, text>>

\* Worker.on_startup_finished
on_startup_finished ==
    /\ run # "new"
    /\ IF spinner = "Active"
       THEN /\ finishCalls' = finishCalls + 1
            /\ spinner' = None
            /\ out' = <<"blockdetection", "finish", "clear", "say ready">>
       ELSE /\ out' = <<"blockdetection", "log Ready">>
            /\ UNCHANGED <<finishCalls, spinner>>
    /\ err' = "none"
    /\ Advance("ready", "finished")
    /\ Strays("ready")
    /\ arg' = -1
    /\ UNCHANGED <<services, sensors, appSensors, appSensors0, appBeaconParent,
                   appCallback, deps, website, websiteCalls, websiteSeen,
                   loglevel, handlers, loggerLevel, cwd, workdir, proctitle,
                   bannerSpinner, starting, started, stopped, failedDep,
                   loop, cfg, text>>

\* ------------------------------------------------------------------ logging
\* A record of some severity logged through the root logger.
Log ==
    /\ run # "new"
    /\ \E sev \in Severities :
         /\ arg' = sev
         /\ out' = <<"log">> \o (IF sev >= loggerLevel
                                 THEN callHandlers(handlers, sev, spinner)
                                 ELSE <<>>)
    /\ err' = "none"
    /\ UNCHANGED <<run, offScript, services, sensors, appSensors, appSensors0,
                   appBeaconParent, appCallback, deps, website, websiteCalls,
                   websiteSeen, spinner, finishCalls, loglevel, handlers,
                   loggerLevel, cwd, workdir, proctitle, bannerSpinner, starting,
                   started, stopped, failedDep,
                   loop, cfg, text>>

\* SpinnerHandler.emit called on an attached spinner handler.
Emit ==
    /\ run # "new"
    /\ \E i \in 1..Len(handlers) : handlers[i].kind = "spinner"
    /\ \E sev \in Severities : arg' = sev
    /\ out' = <<"emit">> \o emit(spinner)
    /\ err' = "none"
    /\ UNCHANGED <<run, offScript, services, sensors, appSensors, appSensors0,
                   appBeaconParent, appCallback, deps, website, websiteCalls,
                   websiteSeen, spinner, finishCalls, loglevel, handlers,
                   loggerLevel, cwd, workdir, proctitle, bannerSpinner, starting,
                   started, stopped, failedDep,
                   loop, cfg, text>>

\* --------------------------------------------------------- dependency start
\* The service framework starts the dependency list in order, one entry at a
\* time; an entry that fails ends the start, the entries already started are
\* stopped, last started first, and the failure is raised to the caller.
BeginStart ==
    /\ run \in {"executed", "starting"}
    /\ starting = 0
    /\ Len(started) < Len(deps)
    /\ starting' = Len(started) + 1
    /\ run' = "starting"
    /\ out' = <<>>
    /\ arg' = -1
    /\ UNCHANGED <<offScript, services, sensors, appSensors, appSensors0,
                   appBeaconParent, appCallback, deps, website, websiteCalls,
                   websiteSeen, spinner, finishCalls, loglevel, handlers,
                   loggerLevel, cwd, workdir, proctitle, bannerSpinner, started,
                   stopped, failedDep, err,
                   loop, cfg, text>>

ReportStarted ==
    /\ run = "starting"
    /\ starting # 0
    /\ started' = Append(started, starting)
    /\ starting' = 0
    /\ run' = IF Len(started') = Len(deps) THEN "ready" ELSE "starting"
    /\ out' = <<>>
    /\ arg' = -1
    /\ UNCHANGED <<offScript, services, sensors, appSensors, appSensors0,
                   appBeaconParent, appCallback, deps, website, websiteCalls,
                   websiteSeen, spinner, finishCalls, loglevel, handlers,
                   loggerLevel, cwd, workdir, proctitle, bannerSpinner, stopped,
                   failedDep, err,
                   loop, cfg, text>>

ReportFailed ==
    /\ run = "starting"
    /\ starting # 0
    /\ failedDep' = starting
    /\ starting' = 0
    /\ run' = "stopping"
    /\ out' = <<>>
    /\ arg' = -1
    /\ UNCHANGED <<offScript, services, sensors, appSensors, appSensors0,
                   appBeaconParent, appCallback, deps, website, websiteCalls,
                   websiteSeen, spinner, finishCalls, loglevel, handlers,
                   loggerLevel, cwd, workdir, proctitle, bannerSpinner, started,
                   stopped, err,
                   loop, cfg, text>>

\* A teardown that stops the entries in the order they started.
NextToStop_Forward(startedSoFar, stoppedSoFar) == startedSoFar[Len(stoppedSoFar) + 1]

\* The next entry to stop: the last started one not yet stopped.
NextToStop(startedSoFar, stoppedSoFar) == startedSoFar[Len(startedSoFar) - Len(stoppedSoFar)]

StopNext ==
    /\ run = "stopping"
    /\ Len(stopped) < Len(started)
    /\ stopped' = Append(stopped, NextToStop(started, stopped))
    /\ out' = <<>>
    /\ arg' = -1
    /\ UNCHANGED <<run, offScript, services, sensors, appSensors, appSensors0,
                   appBeaconParent, appCallback, deps, website, websiteCalls,
                   websiteSeen, spinner, finishCalls, loglevel, handlers,
                   loggerLevel, cwd, workdir, proctitle, bannerSpinner, starting,
                   started, failedDep, err,
                   loop, cfg, text>>

RaiseStartFailure ==
    /\ run = "stopping"
    /\ Len(stopped) = Len(started)
    /\ err' = "DependencyStartFailure"
    /\ run' = "failed"
    /\ out' = <<>>
    /\ arg' = -1
    /\ UNCHANGED <<offScript, services, sensors, appSensors, appSensors0,
                   appBeaconParent, appCallback, deps, website, websiteCalls,
                   websiteSeen, spinner, finishCalls, loglevel, handlers,
                   loggerLevel, cwd, workdir, proctitle, bannerSpinner, starting,
                   started, stopped, failedDep,
                   loop, cfg, text>>

\* ------------------------------------------------------------ specification
\* The app before a Worker is built around it, with no sensors of its own.
InitPlain == Init /\ appSensors0 = {}

NoWorkdir == [abs |-> TRUE, parts |-> <<>>, none |-> TRUE]

\* Worker(app, loglevel=..., workdir=...)
ConstructPlain == WorkerInit({<<>>}, {{}}, ConfigLevels, WorkdirArgs)

\* Worker(app, *services)
ConstructServices == WorkerInit(ServiceSeqs, {{}}, {WARN}, {NoWorkdir})

\* Construction and the accessors of the built Worker.
NextInit ==
    \/ Construct
    \/ CallOnInitDependencies
    \/ AccessWebsite
    \/ CallBanner

SpecInit == Init /\ [][NextInit]_vars

\* Worker(app, *services, sensors=...) before or after the event loop is made.
ConstructLoop == WorkerInit(ServiceSeqs, SUBSET SensorNames, {WARN}, {NoWorkdir})

NextLoop ==
    \/ ConstructLoop
    \/ NewEventLoop
    \/ AccessWebsite
    \/ CallBanner

SpecLoop == InitLoop /\ [][NextLoop]_vars

\* The options and facts the banner reports.
Configs ==
    [logfile : {None, "", "worker.log"}, levelName : LevelNames,
     id : {"x", "y"}, pid : {1234, 7}]

InitBanner ==
    /\ InitWorker
    /\ appSensors0 = {}
    /\ loop \in {"asyncio", "uvloop"}
    /\ cfg \in Configs

\* Worker(app, loglevel=..., logfile=...): the level is a name or a number.
ConstructBanner ==
    WorkerInit({<<>>}, {{}},
               IF cfg.levelName = "" THEN ConfigLevels
               ELSE {level_number(cfg.levelName)},
               {NoWorkdir})

NextBanner ==
    \/ ConstructBanner
    \/ CallBanner

SpecBanner == InitBanner /\ [][NextBanner]_vars

\* The hooks of the Worker, called in the startup order or in any other.
Next ==
    \/ ConstructPlain
    \/ on_first_start
    \/ CallOnSetupRootLogger
    \/ on_execute
    \/ on_startup_finished
    \/ Log
    \/ Emit
    \/ BeginStart
    \/ ReportStarted
    \/ ReportFailed
    \/ StopNext
    \/ RaiseStartFailure

Spec == InitPlain /\ [][Next]_vars

\* The startup of a Worker with auxiliary services.
NextStart ==
    \/ ConstructServices
    \/ on_first_start
    \/ on_execute
    \/ on_startup_finished
    \/ BeginStart
    \/ ReportStarted
    \/ ReportFailed
    \/ StopNext
    \/ RaiseStartFailure

SpecStart == InitPlain /\ [][NextStart]_vars

\* ------------------------------------------------------------------ claims
Built == run # "new"

\* C1: the dependency list on_init_dependencies returns is the website, then
\* the auxiliary services in the order the caller gave them, then the app,
\* with nothing dropped, repeated or moved.
C1_DependencyOrder ==
    Built =>
        /\ Len(deps) = Len(services) + 2
        /\ deps[1] = "website"
        /\ deps[Len(deps)] = "app"
        /\ \A i \in 1..Len(services) : deps[i + 1] = services[i]

C1_Witness ==
    /\ Built
    /\ services = <<"S2", "S1">>
    /\ deps = <<"website", "S2", "S1", "app">>

\* C2: the dependency list is started one entry after the other, entry N+1
\* only once entries 1..N have reported started; when an entry fails no later
\* entry is started, the started ones are stopped in reverse start order and
\* the failure reaches the caller after that.
Reverse(q) == [i \in 1..Len(q) |-> q[Len(q) + 1 - i]]

C2_SequentialFailStop ==
    /\ \A i \in 1..Len(started) : started[i] = i
    /\ Len(started) <= Len(deps)
    /\ starting # 0 => starting = Len(started) + 1 /\ failedDep = 0
    /\ failedDep # 0 =>
          /\ Len(started) = failedDep - 1
          /\ starting = 0
          /\ run \in {"stopping", "failed"}
    /\ failedDep = 0 => stopped = <<>> /\ run # "failed"
    /\ Len(stopped) <= Len(started)
    /\ stopped = SubSeq(Reverse(started), 1, Len(stopped))
    /\ run = "failed" => stopped = Reverse(started)
    /\ run = "failed" /\ ~offScript => err = "DependencyStartFailure"

C2_Witness ==
    /\ run = "failed"
    /\ deps = <<"website", "S1", "S2", "app">>
    /\ failedDep = 3
    /\ started = <<1, 2>>
    /\ stopped = <<2, 1>>
    /\ ~offScript
    /\ err = "DependencyStartFailure"

\* C3: once the Worker is built the parent of app.beacon is the Worker's
\* beacon, and it stays so.
C3_BeaconParent == Built => appBeaconParent = "worker"

C3_Witness ==
    /\ run = "constructed"
    /\ appBeaconParent = "worker"
    /\ services = <<"S1">>
    /\ sensors = {"m1"}

\* C4: once the Worker is built app.sensors holds every sensor handed to the
\* Worker and every sensor the app had before.
C4_SensorsMerged ==
    Built => sensors \subseteq appSensors /\ appSensors0 \subseteq appSensors

C4_Witness ==
    /\ Built
    /\ sensors = {"m1"}
    /\ appSensors0 = {"m2"}
    /\ appSensors = {"m1", "m2"}

\* C5: the website factory is not invoked before the first access of the
\* accessor, is invoked at most once however often and from wherever the
\* accessor is read, and every read returns the one instance.
C5_WebsiteOnce ==
    /\ websiteCalls <= 1
    /\ Cardinality(websiteSeen) <= 1
    /\ websiteSeen = {} => websiteCalls = 0 /\ website = 0
    /\ websiteSeen # {} => websiteSeen = {website}

C5_Witness ==
    /\ run = "constructed"
    /\ out = <<"website">>
    /\ websiteCalls = 1
    /\ websiteSeen = {1}

\* Spinner handlers among the handlers of a logger.
NumSpinner(hs) == Cardinality({i \in 1..Len(hs) : hs[i].kind = "spinner"})

\* The last call was a logging setup that returned; arg is its level.
SetupDone ==
    /\ out # <<>>
    /\ out[Len(out)] \in {"on_setup_root_logger", "setup_logging"}
    /\ err = "none"

\* C6 as claimed: after a logging setup with any level from 0 to WARN-1 the
\* spinner is Disabled and the root logger has no spinner handler.
C6_Original ==
    (SetupDone /\ arg \in 0..(WARN - 1)) => (spinner = None /\ NumSpinner(handlers) = 0)

\* C6: a logging setup with a level from 1 to WARN-1 leaves the spinner
\* Disabled and attaches no spinner handler, and a Disabled spinner stays
\* Disabled in every later step.
C6_VerboseDisables ==
    [][ /\ (SetupDone' /\ arg' \in 1..(WARN - 1)) =>
              (spinner' = None /\ NumSpinner(handlers') = NumSpinner(handlers))
        /\ (spinner = None => spinner' = None) ]_vars

C6_Witness ==
    /\ out = <<"setup_logging">>
    /\ err = "none"
    /\ arg = WARN - 1
    /\ spinner = None
    /\ handlers = <<StreamHandler>>

\* No hook has been called since the constructor returned.
FreshlyBuilt == run = "constructed" /\ ~offScript

\* C7 as claimed: a Worker built with log level DEBUG has, when the
\* constructor returns, a Disabled spinner and no website yet.
C7_Original ==
    (FreshlyBuilt /\ loglevel = DEBUG) => (spinner = None /\ websiteCalls = 0)

\* C7: a Worker built with log level DEBUG has, when the constructor returns,
\* an Active spinner and the website built once by the dependency list; the
\* spinner is Disabled once on_first_start has set up logging.
C7_ActiveUntilSetup ==
    /\ (FreshlyBuilt /\ loglevel = DEBUG) =>
          (spinner = "Active" /\ websiteCalls = 1 /\ website = 1)
    /\ (run = "first_started" /\ ~offScript /\ loglevel = DEBUG) => spinner = None

C7_Witness ==
    /\ FreshlyBuilt
    /\ loglevel = DEBUG
    /\ spinner = "Active"
    /\ websiteCalls = 1
    /\ out = <<>>

\* C8: once the spinner handle of the built Worker is cleared no step of any
\* hook, in any order and any number, sets it again.
C8_DisabledTerminal == [][spinner = None => spinner' = None]_vars

C8_Witness ==
    /\ spinner = None
    /\ finishCalls = 1
    /\ out = <<"on_setup_root_logger">>
    /\ err = "none"
    /\ arg = WARN

\* Ticks of the record the last call logged or emitted.
Ticks == Len(out) - 1
Logged == out # <<>> /\ out[1] = "log"
Emitted == out # <<>> /\ out[1] = "emit"

\* C9 as claimed: a record logged through the root logger ticks the spinner
\* exactly once while the spinner is Active and not at all while Disabled.
C9_Original == Logged => Ticks = (IF spinner = "Active" THEN 1 ELSE 0)

\* C9: a record handed to SpinnerHandler.emit ticks exactly once while the
\* spinner is Active and not at all while Disabled, whatever its severity; a
\* record logged through the root logger is handed to each attached spinner
\* handler when its severity is at least DEBUG, so it ticks once for each of
\* them: not at all before logging setup or below DEBUG.
C9_TickPerDelivery ==
    /\ Emitted => Ticks = (IF spinner = "Active" THEN 1 ELSE 0)
    /\ Logged => Ticks = (IF spinner = "Active" /\ arg >= DEBUG
                          THEN NumSpinner(handlers) ELSE 0)

C9_Witness ==
    /\ out = <<"log", "tick">>
    /\ arg = DEBUG
    /\ loglevel = WARN + 10
    /\ spinner = "Active"
    /\ NumSpinner(handlers) = 1

\* The startup run is at or past the banner and no hook left the order.
BannerInRun ==
    /\ ~offScript
    /\ run \in {"executed", "starting", "ready", "stopping", "failed", "finished"}

\* C10 as claimed: in a startup run the spinner is Disabled when on_execute
\* writes the banner, whatever the log level.
C10_Original == BannerInRun => bannerSpinner = None

\* C10: in a startup run the spinner is Disabled when on_execute writes the
\* banner exactly when the log level is from 1 to WARN-1; for WARN and above
\* and for the level that is not set it is Active.
C10_BannerSpinner ==
    BannerInRun =>
        bannerSpinner = (IF loglevel \in 1..(WARN - 1) THEN None ELSE "Active")

C10_Witness ==
    /\ ~offScript
    /\ run = "executed"
    /\ loglevel = WARN
    /\ bannerSpinner = "Active"
    /\ out = <<"setproctitle", "banner", "prompt">>

\* C11: on_first_start changes the directory, when the workdir differs from
\* the current directory, before logging is set up; it changes nothing when
\* they are equal; and when the change fails logging setup is not reached.
C11_ChdirBeforeLogging ==
    [][ /\ out' = <<"chdir", "setup_logging">> =>
              (cwd # Absolute(workdir, cwd) /\ cwd' = Absolute(workdir, cwd))
        /\ out' = <<"setup_logging">> =>
              (cwd = Absolute(workdir, cwd) /\ cwd' = cwd)
        /\ (err' = "chdir" /\ out' = <<>>) =>
              (handlers' = handlers /\ loggerLevel' = loggerLevel
               /\ spinner' = spinner /\ cwd' = cwd
               /\ cwd # Absolute(workdir, cwd)) ]_vars

C11_Witness ==
    /\ out = <<"chdir", "setup_logging">>
    /\ workdir = [abs |-> TRUE, parts |-> <<"b">>]
    /\ cwd = <<"b">>
    /\ handlers # <<>>
    /\ err = "none"

\* C12: however often on_first_start is called the directory of the process
\* is changed at most once: it is the start directory or the workdir as it
\* resolved when the Worker was built, for an absolute, a relative or no
\* workdir.
C12_ChdirOnce == Built => cwd \in {StartDir, Absolute(workdir, StartDir)}

\* The last call was on_startup_finished.
StartupFinishedDone == out # <<>> /\ out[1] = "blockdetection"

\* C13: on_startup_finished awaits the block detection first and then gives
\* one sign of readiness: with an Active spinner it finishes the spinner,
\* clears the handle and then prints the marker, and logs nothing; with a
\* Disabled spinner it logs Ready and prints nothing. The spinner is Disabled
\* when it returns.
C13_ReadyOnce ==
    [][ StartupFinishedDone' =>
          /\ spinner' = None
          /\ spinner = "Active" =>
                /\ out' = <<"blockdetection", "finish", "clear", "say ready">>
                /\ finishCalls' = finishCalls + 1
          /\ spinner # "Active" =>
                /\ out' = <<"blockdetection", "log Ready">>
                /\ finishCalls' = finishCalls ]_vars

C13_Witness ==
    /\ out = <<"blockdetection", "finish", "clear", "say ready">>
    /\ spinner = None
    /\ finishCalls = 1
    /\ run = "finished"
    /\ ~offScript

\* C14: setting the process title never makes on_execute fail: no error of
\* setproctitle reaches the caller of on_execute.
C14_TitleBestEffort == err # "setproctitle"

\* C15: while there is no event loop no website is built or memoized, an
\* access of the accessor then fails with NotReady, and the access made once
\* the loop exists builds the website.
C15_NotReady ==
    [][ /\ loop = None => (website = 0 /\ websiteCalls = 0 /\ websiteSeen = {})
        /\ (loop = None /\ loop' = None /\ appCallback' = "worker") =>
              (err' = "NotReady" /\ run' = "new" /\ website' = 0 /\ websiteCalls' = 0)
        /\ (loop # None /\ run = "new" /\ run' # "new") =>
              (err' = "none" /\ website' = 1 /\ websiteCalls' = 1) ]_vars

C15_Witness ==
    /\ run = "new"
    /\ err = "NotReady"
    /\ loop = None
    /\ appCallback = "worker"
    /\ website = 0
    /\ websiteCalls = 0

\* The keys of the rendered banner, in the order they are printed.
BannerKeys == [i \in 1..Len(text) |-> text[i].key]

\* The level name the banner must show for what the Worker was given.
ShownLevel ==
    CASE cfg.levelName = "WARN" -> "warn"
      [] cfg.levelName = "info" -> "info"
      [] cfg.levelName = "Debug" -> "debug"
      [] cfg.levelName = "" /\ loglevel = 0 -> "warn"
      [] cfg.levelName = "" /\ loglevel = 1 -> "level 1"
      [] cfg.levelName = "" /\ loglevel = DEBUG -> "debug"
      [] cfg.levelName = "" /\ loglevel = WARN - 1 -> "level 29"
      [] cfg.levelName = "" /\ loglevel = WARN -> "warning"
      [] cfg.levelName = "" /\ loglevel = WARN + 10 -> "error"

\* C16: the rendered banner has the keys id, web, log, pid, hostname, loop,
\* transport, store in that order after the art and the ident; the log line
\* shows the log file when one is set and '-stderr-' when none is, followed
\* by the lower-cased level name, 'warn' when no level is configured; the
\* transport line carries '+uvloop' exactly when the loop's class module is
\* uvloop.  logfile=None, loglevel='WARN', app.id='x', pid=1234 gives
\* id x, log -stderr- (warn), pid 1234.
C16_Banner ==
    text # <<>> =>
        /\ BannerKeys = <<"art", "ident", "id", "web", "log", "pid", "hostname",
                          "loop", "transport", "store">>
        /\ text[3].val = <<cfg.id>>
        /\ cfg.logfile = "worker.log" => text[5].val[1] = "worker.log"
        /\ cfg.logfile \in {None, ""} => text[5].val[1] = "-stderr-"
        /\ text[5].val[2] = ShownLevel
        /\ Len(text[5].val) = 2
        /\ (\E i \in 1..Len(text[9].val) : text[9].val[i] = "+uvloop")
               <=> loop = "uvloop"
        /\ \A k \in (1..Len(text)) \ {9} :
               \A i \in 1..Len(text[k].val) : text[k].val[i] # "+uvloop"
        /\ (cfg.logfile = None /\ cfg.levelName = "WARN" /\ cfg.id = "x"
            /\ cfg.pid = 1234) =>
               /\ text[3] = [key |-> "id", val |-> <<"x">>]
               /\ text[5] = [key |-> "log", val |-> <<"-stderr-", "warn">>]
               /\ text[6] = [key |-> "pid", val |-> <<"1234">>]

C16_Witness ==
    /\ text # <<>>
    /\ cfg = [logfile |-> None, levelName |-> "WARN", id |-> "x", pid |-> 1234]
    /\ loop = "uvloop"
    /\ loglevel = WARN
    /\ text[9].val = <<"app.url", "+uvloop">>

\* C17 as claimed: when the spinner is Active after a logging setup, the last
\* handler of the root logger is the spinner's at DEBUG and the root logger's
\* own level equals the configured level.
C17_Original ==
    (SetupDone /\ spinner = "Active") =>
        (handlers[Len(handlers)] = [kind |-> "spinner", level |-> DEBUG]
         /\ loggerLevel = arg)

\* C17: when the spinner is Active after a logging setup that returned, the
\* last handler of the root logger is the spinner's at DEBUG, the root
\* logger's own level is DEBUG, and the configured level is the level of the
\* logger's first handler.
C17_HandlerAtDebug ==
    (SetupDone /\ spinner = "Active") =>
        /\ handlers[Len(handlers)] = [kind |-> "spinner", level |-> DEBUG]
        /\ loggerLevel = DEBUG
        /\ handlers[1].kind = "stream"
        /\ handlers[1].level = arg

C17_Witness ==
    /\ out = <<"setup_logging">>
    /\ err = "none"
    /\ spinner = "Active"
    /\ arg = WARN
    /\ handlers = <<[kind |-> "stream", level |-> WARN], SpinnerHandler>>
    /\ loggerLevel = DEBUG

\* C18 as claimed: a direct on_setup_root_logger that leaves the spinner
\* Disabled leaves the handler list, the first handler's level and the
\* logger's level unchanged; one that leaves it Active appends exactly one
\* SpinnerHandler, sets the first handler's level to the configured level
\* and the logger's level to DEBUG.
C18_Original ==
    [][ out' = <<"on_setup_root_logger">> =>
          /\ spinner' = None =>
                (handlers' = handlers /\ loggerLevel' = loggerLevel)
          /\ spinner' = "Active" =>
                /\ Len(handlers') = Len(handlers) + 1
                /\ NumSpinner(handlers') = NumSpinner(handlers) + 1
                /\ handlers'[1].level = arg'
                /\ loggerLevel' = DEBUG ]_vars

\* C18: a direct on_setup_root_logger that leaves the spinner Disabled leaves
\* the handler list, the first handler's level and the logger's level
\* unchanged; one that leaves it Active on a logger with at least one
\* handler appends exactly one SpinnerHandler, sets the first handler's level
\* to the configured level and the logger's level to DEBUG, changing no
\* other handler; on a logger with no handler it raises IndexError and
\* changes nothing of the logger.
C18_SetupFrame ==
    [][ out' = <<"on_setup_root_logger">> =>
          /\ spinner' = None =>
                (handlers' = handlers /\ loggerLevel' = loggerLevel
                 /\ err' = "none")
          /\ (spinner' = "Active" /\ handlers # <<>>) =>
                /\ handlers' = Append([handlers EXCEPT ![1].level = arg'],
                                      SpinnerHandler)
                /\ NumSpinner(handlers') = NumSpinner(handlers) + 1
                /\ loggerLevel' = DEBUG
                /\ err' = "none"
          /\ (spinner' = "Active" /\ handlers = <<>>) =>
                (err' = "IndexError" /\ handlers' = handlers
                 /\ loggerLevel' = loggerLevel) ]_vars

C18_Witness ==
    /\ out = <<"on_setup_root_logger">>
    /\ err = "none"
    /\ spinner = "Active"
    /\ arg = WARN + 10
    /\ NumSpinner(handlers) = 2
    /\ handlers[1] = [kind |-> "stream", level |-> WARN + 10]
    /\ loggerLevel = DEBUG

\* C19: the spinner is finished at most once and the 'ready' marker is
\* printed only with that finish; every on_startup_finished leaves the
\* spinner cleared, so each later one logs 'Ready' and finishes nothing; once
\* the spinner is cleared a record that reaches the SpinnerHandler, by a log
\* call or a direct emit, ticks nothing and raises nothing.
C19_FinishOnce ==
    [][ /\ finishCalls' <= 1
        /\ StartupFinishedDone' => spinner' = None
        /\ (StartupFinishedDone' /\ spinner = None) =>
              (out' = <<"blockdetection", "log Ready">>
               /\ finishCalls' = finishCalls)
        /\ (out' # <<>> /\ out'[Len(out')] = "say ready") =>
              finishCalls' = finishCalls + 1
        /\ ((Logged' \/ Emitted') /\ spinner = None) =>
              (Ticks' = 0 /\ err' = "none" /\ spinner' = None) ]_vars

C19_Witness ==
    /\ finishCalls = 1
    /\ out = <<"blockdetection", "log Ready">>
    /\ spinner = None
    /\ NumSpinner(handlers) = 1
====
